---- MODULE Spec2Model ----
(***************************************************************************)
(* timg: main (timg.cc) from option parsing to its return, the video       *)
(* loader and its playback loop VideoLoader::Play (video-display.cc) and   *)
(* the Time/Duration arithmetic it paces itself with (timg-time.h).        *)
(*                                                                         *)
(* A Time or Duration is the struct timespec it wraps: a record            *)
(* [sec, nsec].  The monotonic clock is the variable now; it is always a   *)
(* normalized timespec and only moves forward.                             *)
(***************************************************************************)
EXTENDS Integers, Sequences, FiniteSets, TLC

\* ---------------------------------------------------------------- bounds
MaxItems == 2        \* command-line items (argc - optind) per run
MaxRunPackets == 2   \* packets av_read_frame delivers in one run of main
MaxPackets == 5      \* packets av_read_frame delivers to a Play studied alone
MaxMainItems == 1    \* items of a run followed from its command line
MaxMainPackets == 1
MaxAdds == 2  \* packets av_read_frame delivers in such a run

\* ------------------------------------------------------ program constants
NanosPerSec == 1000000000
MillisPerSec == 1000
NanosPerMilli == 1000000
InfiniteSecs == 1000000000

\* ------------------------------------------------- C integer arithmetic
\* C's / and % truncate towards zero.
CDiv(a, b) == IF a >= 0 THEN a \div b ELSE -((-a) \div b)
CMod(a, b) == a - b * CDiv(a, b)

\* ------------------------------------------------------------- Duration
Millis(ms) == [sec |-> CDiv(ms, MillisPerSec),
               nsec |-> CMod(ms, MillisPerSec) * NanosPerMilli]
Nanos(nanos) == [sec |-> CDiv(nanos, NanosPerSec),
                 nsec |-> CMod(nanos, NanosPerSec)]
InfiniteFuture == [sec |-> InfiniteSecs, nsec |-> 0]
\* static Duration Micros(long usec)
\*     { return Duration(usec / 1000, (usec % 1000000) * 1000); }
Micros(usec) == [sec |-> CDiv(usec, 1000),
                 nsec |-> CMod(usec, 1000000) * 1000]

\* ----------------------------------------------------------------- Time
\* The while loop of Time::Add: carries whole seconds out of tv_nsec while
\* tv_nsec is greater than one second.
RECURSIVE AddCarry(_)
AddCarry(t) ==
    IF t.nsec > NanosPerSec
    THEN AddCarry([sec |-> t.sec + 1, nsec |-> t.nsec - NanosPerSec])
    ELSE t

\* Time::Add (and operator+, which copies and calls Add).
TimeAdd(t, d) == AddCarry([sec |-> t.sec + d.sec, nsec |-> t.nsec + d.nsec])

\* Time::operator<
TimeLess(a, b) ==
    IF a.sec > b.sec THEN FALSE
    ELSE IF a.sec < b.sec THEN TRUE
    ELSE a.nsec < b.nsec

\* Time::operator>=
TimeGE(a, b) == ~TimeLess(a, b)

\* Time::nanoseconds(), kept as the normalized pair (whole seconds,
\* remaining nanoseconds) of the 64-bit sum tv_sec * 10^9 + tv_nsec.
nanoseconds(t) == [sec |-> t.sec + (t.nsec \div NanosPerSec),
                   nsec |-> t.nsec % NanosPerSec]

\* Order and sum of nanoseconds() values.
NanosLess(a, b) ==
    LET x == nanoseconds(a)
        y == nanoseconds(b)
    IN  x.sec < y.sec \/ (x.sec = y.sec /\ x.nsec < y.nsec)
NanosLeq(a, b) == ~NanosLess(b, a)
NanosSum(a, b) == nanoseconds([sec |-> a.sec + b.sec, nsec |-> a.nsec + b.nsec])

\* clock_nanosleep(CLOCK_MONOTONIC, TIMER_ABSTIME, &time_, nullptr) accepts a
\* timespec only with 0 <= tv_nsec < 10^9 and tv_sec >= 0 (EINVAL otherwise).
ValidTimespec(t) == t.sec >= 0 /\ t.nsec >= 0 /\ t.nsec < NanosPerSec

\* Time::WaitUntil, uninterrupted: the clock value at which the call
\* returns when it is entered at clock value clk.
WaitUntil(t, clk) ==
    IF ~ValidTimespec(t) THEN clk
    ELSE IF NanosLess(clk, t) THEN t
    ELSE clk

\* ------------------------------------------------ environment and inputs
ClockSeeds == {[sec |-> 0, nsec |-> 0], [sec |-> 0, nsec |-> 600000000]}
Durations == {InfiniteFuture, Millis(350)}          \* default, -t0.35
BetweenImages == {Millis(0)}                        \* default -w

\* AVRational rate = av_guess_frame_rate(...): 10 fps, 3 fps, and the 0/1 it
\* returns when the frame rate of the stream is unknown.
TenFps == [num |-> 10, den |-> 1]
FrameRates == {TenFps, [num |-> 3, den |-> 1], [num |-> 0, den |-> 1]}

\* (long)(1e9 * rate.den / rate.num) with rate.num == 0: the double is
\* infinite and its conversion to long is undefined. The builds in use give
\* LONG_MIN (x86-64) or saturate to LONG_MAX (aarch64); 0 stands for any other
\* outcome. The magnitudes are shortened to what the model's integers hold.
UndefinedLongs == {-2000000000, 0, 2000000000}

\* frame_duration_ = Duration::Nanos(1e9 * rate.den / rate.num);
FrameDuration(rate) ==
    IF rate.num = 0 THEN {Nanos(x) : x \in UndefinedLongs}
    ELSE {Nanos(CDiv(NanosPerSec * rate.den, rate.num))}

FrameDurations(rs) == UNION {FrameDuration(r) : r \in rs}

\* The frame rates met in a run of the whole program: every rate, one at a
\* time, with the default options, and 10 fps with every other command line.
StreamRates(args) ==
    IF args = <<>> THEN {{r} : r \in FrameRates} ELSE {{TenFps}}
Latencies == {Nanos(0), Nanos(150000000)}           \* decode+scale+render

\* ScaleToFit(codec width, codec height, screen_width, screen_height, opts,
\*            &target_width, &target_height): a video that fills the width
\* and a narrower, taller one.
ScaleToFit(screen_width) ==
    {[target_width |-> screen_width, target_height |-> 2],
     [target_width |-> CDiv(screen_width, 2) - 3, target_height |-> 4]}

\* int center_indentation_ before LoadAndScale assigns it
NoIndentation == 0

CenterIndentationUncentered(o, screen_width, target_width) ==
    IF o.center_horizontally THEN screen_width - target_width
    ELSE NoIndentation

\* if (display_options.center_horizontally)
\*     center_indentation_ = (screen_width - target_width)/2;
CenterIndentation(o, screen_width, target_width) ==
    IF o.center_horizontally THEN CDiv(screen_width - target_width, 2)
    ELSE NoIndentation
PacketKinds == {"video", "noframe", "other"}
LoadResults == {"image", "animation", "video", "no_sws_context", "unreadable"}

\* The fields LoadAndScale leaves in a VideoLoader it accepted, for the
\* display options o, the screen width and the frame rates rs streams have.
Loaders(o, screen_width, rs) ==
    {[frame_duration_ |-> f, height |-> t.target_height,
      target_width |-> t.target_width,
      center_indentation_ |-> CenterIndentation(o, screen_width,
                                                t.target_width),
      cost |-> c] :
        f \in FrameDurations(rs), t \in ScaleToFit(screen_width),
        c \in Latencies}

\* struct winsize as ioctl(TIOCGWINSZ) leaves it: a terminal, or the zeroed
\* struct when the ioctl fails.
Terminals == {[ok |-> TRUE, ws_col |-> 80, ws_row |-> 25],
              [ok |-> FALSE, ws_col |-> 0, ws_row |-> 0]}
ATerminal == [ok |-> TRUE, ws_col |-> 80, ws_row |-> 25]

\* const int term_width = w.ws_col; term_height = 2 * (w.ws_row-1);
TermWidth(w) == w.ws_col
TermHeight(w) == 2 * (w.ws_row - 1)

\* An option getopt returns: its letter and the numbers its argument scans
\* to (<<>> when there is no argument or nothing scans).
Opt(o, a) == [opt |-> o, arg |-> a]

\* Command lines: every combination of -s / -s100, -d and -W, and single
\* settings of the other options.
ScrollOpts == {<<>>, <<Opt("s", <<>>)>>, <<Opt("s", <<100>>)>>}
DeltaOpts == {<<>>, <<Opt("d", <<0, 1>>)>>, <<Opt("d", <<0, 0>>)>>,
              <<Opt("d", <<1, 1>>)>>, <<Opt("d", <<2>>)>>}
WidthOpts == {<<>>, <<Opt("W", <<>>)>>}
CommandLines ==
    {s \o d \o w : s \in ScrollOpts, d \in DeltaOpts, w \in WidthOpts}
    \cup {<<Opt("g", <<0, 10>>)>>, <<Opt("g", <<10, 0>>)>>,
          <<Opt("g", <<10, 10>>)>>, <<Opt("g", <<10>>)>>, <<Opt("d", <<>>)>>,
          <<Opt("T", <<>>)>>, <<Opt("T", <<2>>)>>, <<Opt("T", <<0>>)>>,
          <<Opt("V", <<>>), Opt("T", <<>>)>>, <<Opt("V", <<>>)>>,
          <<Opt("w", <<200>>)>>, <<Opt("w", <<200>>), Opt("s", <<>>)>>,
          <<Opt("w", <<200>>), Opt("t", <<350>>), Opt("s", <<>>)>>,
          <<Opt("t", <<350>>)>>, <<Opt("E", <<>>)>>, <<Opt("f", <<1>>)>>,
          <<Opt("c", <<2>>)>>, <<Opt("v", <<>>)>>, <<Opt("h", <<>>)>>,
          <<Opt("C", <<>>)>>, <<Opt("C", <<>>), Opt("g", <<20, 10>>)>>}

\* -f and -c: the defaults, and -f2 -c2
PlayBudgets == {[max_frames |-> -1, loops |-> -1],
                [max_frames |-> 2, loops |-> 2]}

NoDisplayOptions == [fill_width |-> FALSE, fill_height |-> FALSE,
                     auto_trim_image |-> FALSE, crop_border |-> 0,
                     center_horizontally |-> FALSE]

NoTime == [sec |-> 0, nsec |-> 0]
NoLoader == [frame_duration_ |-> NoTime, height |-> 0, target_width |-> 0,
             center_indentation_ |-> NoIndentation, cost |-> NoTime]
\* No Time or Duration object outside main and Play.
NoLib == [a |-> NoTime, b |-> NoTime,
          made |-> [factory |-> "none", arg |-> 0, d |-> NoTime],
          cmp |-> [done |-> FALSE, less |-> FALSE, ge |-> FALSE],
          adds |-> 0]
NoObs == [intr_at_start |-> 0, start |-> NoTime, seed |-> NoTime,
          reads |-> 0, vreads |-> 0, decoded |-> 0, video |-> 0, sends |-> 0,
          waits |-> 0,
          reads_after |-> 0, sends_after |-> 0, polled_at |-> NoTime,
          eof |-> FALSE]

VARIABLES
    interrupt_received,  \* volatile sig_atomic_t interrupt_received
    pc,                  \* position of main / Play
    now,                 \* CLOCK_MONOTONIC
    hide_cursor,         \* !-E
    do_image_loading,    \* !-V
    duration,            \* -t
    between_images_duration,   \* -w
    nitems,              \* argc - optind
    imgarg,              \* index of the current item, 1-based
    exit_code,
    canvas,              \* calls made on the TerminalCanvas, in order
    file,                \* what the current item turns out to be
    video_loader,        \* fields of the VideoLoader of the current item
    end_time,            \* Play: const Time end_time
    end_next_frame,      \* Play: Time end_next_frame
    is_first,            \* Play: bool is_first
    packet,              \* Play: kind of the packet just read
    attempted,           \* items the loop body was entered for, in order
    failed,              \* <<item, what it was>> where every loader failed
    first_poll,          \* the flag as read by the loop's first check
    obs,                 \* observations of the current Play call
    delivered,           \* packets av_read_frame has delivered so far
    budget,              \* packets av_read_frame can deliver before EOF
    argv,                \* the options of the command line, in order
    optind,              \* index of the next option getopt returns
    term,                \* struct winsize w
    width,               \* int width
    height,              \* int height
    do_scroll,
    scroll_delay,
    dx,
    dy,
    fit_width,
    display_opts,        \* timg::DisplayOptions display_opts
    max_frames,
    loops,
    status,              \* value main has returned, -1 while it runs
    stderr,              \* messages printed about the current item
    tried,               \* LoadAndScale calls made for the current item
    played,              \* items Play was called for, in order
    frame_rates,         \* what av_guess_frame_rate can return in this run
    lib                  \* Time and Duration objects used on their own

vars == <<interrupt_received, pc, now, hide_cursor, do_image_loading, duration,
          nitems, imgarg, exit_code, canvas, file, video_loader, end_time,
          end_next_frame, is_first, packet, attempted, failed, first_poll, obs,
          delivered, budget, between_images_duration, argv, optind, term,
          width, height, do_scroll, scroll_delay, dx, dy, fit_width,
          display_opts, max_frames, loops, status, stderr, tried, played,
          frame_rates, lib>>

parsed == <<width, height, do_scroll, scroll_delay, dx, dy, fit_width,
            max_frames, loops>>
options == <<hide_cursor, do_image_loading, duration, nitems, budget,
             between_images_duration, argv, optind, term, parsed,
             display_opts, frame_rates, lib>>
playLocals == <<end_time, end_next_frame, is_first, packet>>
itemLog == <<status, stderr, tried, played>>
mainLog == <<attempted, failed, first_poll, delivered, itemLog>>

Event(op, n) == [op |-> op, n |-> n]
\* canvas->Send(*terminal_fb_, center_indentation_)
SendEvent(fb_height, indent) ==
    [op |-> "Send", n |-> fb_height, indent |-> indent]

\* The clock moves forward by d (exact: the clock is not a Time::Add).
ClockAfter(clk, d) == NanosSum(clk, d)

\* State on entry to line 251 of main: options parsed and validated.  The
\* clock starts at its origin here; SpecPlay starts Play at other readings.
Init ==
    /\ interrupt_received = 0
    /\ pc = "init"
    /\ now = NoTime
    /\ hide_cursor \in BOOLEAN
    /\ do_image_loading \in BOOLEAN
    /\ duration \in Durations
    /\ between_images_duration \in BetweenImages
    /\ nitems \in 1..MaxItems
    /\ imgarg = 1
    /\ exit_code = 0
    /\ canvas = <<>>
    /\ file = "none"
    /\ video_loader = NoLoader
    /\ end_time = NoTime
    /\ end_next_frame = NoTime
    /\ is_first = TRUE
    /\ packet = "none"
    /\ attempted = <<>>
    /\ failed = {}
    /\ first_poll = -1
    /\ obs = NoObs
    /\ delivered = 0
    /\ budget = MaxRunPackets
    /\ argv = <<>>
    /\ optind = 1
    /\ term = ATerminal
    /\ width = TermWidth(term)
    /\ height = TermHeight(term)
    /\ do_scroll = FALSE
    /\ scroll_delay = Millis(50)
    /\ dx = 1
    /\ dy = 0
    /\ fit_width = FALSE
    /\ display_opts = NoDisplayOptions
    /\ max_frames = -1
    /\ loops = -1
    /\ status = -1
    /\ stderr = {}
    /\ tried = <<>>
    /\ played = <<>>
    /\ frame_rates = {TenFps}
    /\ lib = NoLib

\* State on entry to the getopt loop of main (line 134): the terminal has
\* been asked for its size and every option has its default.
InitMain ==
    /\ interrupt_received = 0
    /\ pc = "getopt"
    /\ now = NoTime
    /\ hide_cursor = TRUE
    /\ do_image_loading = TRUE
    /\ duration = InfiniteFuture
    /\ between_images_duration = Millis(0)
    /\ nitems \in 0..MaxMainItems
    /\ imgarg = 1
    /\ exit_code = 0
    /\ canvas = <<>>
    /\ file = "none"
    /\ video_loader = NoLoader
    /\ end_time = NoTime
    /\ end_next_frame = NoTime
    /\ is_first = TRUE
    /\ packet = "none"
    /\ attempted = <<>>
    /\ failed = {}
    /\ first_poll = -1
    /\ obs = NoObs
    /\ delivered = 0
    /\ budget = MaxMainPackets
    /\ argv \in CommandLines
    /\ optind = 1
    /\ term \in Terminals
    /\ width = TermWidth(term)
    /\ height = TermHeight(term)
    /\ do_scroll = FALSE
    /\ scroll_delay = Millis(50)
    /\ dx = 1
    /\ dy = 0
    /\ fit_width = FALSE
    /\ display_opts = NoDisplayOptions
    /\ max_frames = -1
    /\ loops = -1
    /\ status = -1
    /\ stderr = {}
    /\ tried = <<>>
    /\ played = <<>>
    /\ frame_rates \in StreamRates(argv)
    /\ lib = NoLib

\* ------------------------------------------------- main: option parsing
\* return usage(...) returns 1; case 'v' returns 0.
ReturnsEarly(o) ==
    \/ o.opt = "h"
    \/ o.opt = "v"
    \/ o.opt = "g" /\ Len(o.arg) < 2       \* sscanf("%dx%d") < 2
    \/ o.opt = "d" /\ Len(o.arg) < 1       \* sscanf("%d:%d") < 1

\* One iteration of while ((opt = getopt(...)) != -1) { switch (opt) ... }.
\* Options that only set rendering details (-a -b -B -C -U -F) are not part
\* of the command lines.
ParseOption ==
    /\ pc = "getopt"
    /\ IF optind > Len(argv)
       THEN /\ pc' = "check_geometry"
            /\ UNCHANGED <<optind, status, width, height,
                           between_images_duration, duration, loops,
                           max_frames, do_scroll, scroll_delay,
                           do_image_loading, dx, dy, display_opts,
                           hide_cursor, fit_width>>
       ELSE LET o == argv[optind]
                n == Len(o.arg)
            IN  /\ optind' = optind + 1
                /\ pc' = IF o.opt = "v" THEN "version"
                         ELSE IF ReturnsEarly(o) THEN "usage"
                         ELSE "getopt"
                /\ status' = IF o.opt = "v" THEN 0
                             ELSE IF ReturnsEarly(o) THEN 1
                             ELSE status
                /\ width' = IF o.opt = "g" /\ n >= 1 THEN o.arg[1] ELSE width
                /\ height' = IF o.opt = "g" /\ n >= 2 THEN o.arg[2] ELSE height
                /\ between_images_duration' =
                      IF o.opt = "w" THEN Millis(o.arg[1])
                      ELSE between_images_duration
                /\ duration' = IF o.opt = "t" THEN Millis(o.arg[1])
                               ELSE duration
                /\ loops' = IF o.opt = "c" THEN o.arg[1] ELSE loops
                /\ max_frames' = IF o.opt = "f" THEN o.arg[1] ELSE max_frames
                /\ do_scroll' = (o.opt = "s" \/ do_scroll)
                /\ scroll_delay' = IF o.opt = "s" /\ n >= 1
                                   THEN Millis(o.arg[1]) ELSE scroll_delay
                /\ do_image_loading' = (o.opt # "V" /\ do_image_loading)
                /\ dx' = IF o.opt = "d" /\ n >= 1 THEN o.arg[1] ELSE dx
                /\ dy' = IF o.opt = "d" /\ n >= 2 THEN o.arg[2] ELSE dy
                /\ display_opts' =
                      IF o.opt = "T"
                      THEN [display_opts EXCEPT
                               !.auto_trim_image = TRUE,
                               !.crop_border = IF n >= 1 THEN o.arg[1] ELSE @]
                      ELSE IF o.opt = "C"
                      THEN [display_opts EXCEPT !.center_horizontally = TRUE]
                      ELSE display_opts
                /\ hide_cursor' = (o.opt # "E" /\ hide_cursor)
                /\ fit_width' = (o.opt = "W" \/ fit_width)
    /\ UNCHANGED <<interrupt_received, now, nitems, budget, argv, term,
                   imgarg, exit_code, canvas, file, video_loader, playLocals,
                   attempted, failed, first_poll, delivered, stderr, tried,
                   played, obs, frame_rates, lib>>

GeometryRejectedBelowZero(w, h) == w < 0 \/ h < 0

\* if (width < 1 || height < 1)
GeometryRejected(w, h) == w < 1 \/ h < 1

\* if (width < 1 || height < 1) { fprintf(...); return usage(...); }
CheckGeometry ==
    /\ pc = "check_geometry"
    /\ IF GeometryRejected(width, height)
       THEN pc' = "usage" /\ status' = 1
       ELSE pc' = "check_filename" /\ status' = status
    /\ UNCHANGED <<interrupt_received, now, options, imgarg, exit_code, canvas,
                   file, video_loader, playLocals, attempted, failed,
                   first_poll, delivered, stderr, tried, played, obs>>

\* if (optind >= argc) { fprintf(...); return usage(...); }
CheckFilename ==
    /\ pc = "check_filename"
    /\ IF nitems = 0
       THEN pc' = "usage" /\ status' = 1
       ELSE pc' = "check_scroll" /\ status' = status
    /\ UNCHANGED <<interrupt_received, now, options, imgarg, exit_code, canvas,
                   file, video_loader, playLocals, attempted, failed,
                   first_poll, delivered, stderr, tried, played, obs>>

CheckScrollKeepsScroll ==
    /\ pc = "check_scroll"
    /\ pc' = "fill"
    /\ UNCHANGED <<interrupt_received, now, options, imgarg, exit_code, canvas,
                   file, video_loader, playLocals, mainLog, obs>>

\* if (dx == 0 && dy == 0) { fprintf(...); do_scroll = false; }
CheckScroll ==
    /\ pc = "check_scroll"
    /\ do_scroll' = IF dx = 0 /\ dy = 0 THEN FALSE ELSE do_scroll
    /\ pc' = "fill"
    /\ UNCHANGED <<interrupt_received, now, hide_cursor, do_image_loading,
                   duration, nitems, budget, between_images_duration, argv,
                   optind, term, width, height, scroll_delay, dx, dy,
                   fit_width, max_frames, loops, display_opts, imgarg,
                   exit_code, canvas, file, video_loader, playLocals, mainLog,
                   obs, frame_rates, lib>>

\* display_opts.fill_width = fit_width || (do_scroll && dy != 0);
FillWidth(fit, scroll, ddy) == fit \/ (scroll /\ ddy # 0)

FillHeightAnyScroll(scroll, ddx) == scroll

\* display_opts.fill_height = do_scroll && dx != 0;
FillHeight(scroll, ddx) == scroll /\ ddx # 0

DeriveFill ==
    /\ pc = "fill"
    /\ display_opts' = [display_opts EXCEPT
                           !.fill_width = FillWidth(fit_width, do_scroll, dy),
                           !.fill_height = FillHeight(do_scroll, dx)]
    /\ pc' = "init"
    /\ UNCHANGED <<interrupt_received, now, hide_cursor, do_image_loading,
                   duration, nitems, budget, between_images_duration, argv,
                   optind, term, parsed, imgarg, exit_code, canvas, file,
                   video_loader, playLocals, mainLog, obs, frame_rates,
                   lib>>

\* ----------------------------------------------------------------- main
\* int exit_code = 0; signal(SIGTERM, ...); signal(SIGINT, ...);
InstallHandlers ==
    /\ pc = "init"
    /\ exit_code' = 0
    /\ pc' = "cursor_off"
    /\ UNCHANGED <<interrupt_received, now, options, imgarg, canvas, file,
                   video_loader, playLocals, mainLog, obs>>

\* TerminalCanvas canvas(...); if (hide_cursor) canvas.CursorOff();
HideCursor ==
    /\ pc = "cursor_off"
    /\ canvas' = IF hide_cursor THEN Append(canvas, Event("CursorOff", 0))
                 ELSE canvas
    /\ pc' = "loop"
    /\ UNCHANGED <<interrupt_received, now, options, imgarg, exit_code, file,
                   video_loader, playLocals, mainLog, obs>>

\* imgarg < argc && !interrupt_received
LoopConditionNoPoll(arg, flag) == arg <= nitems
LoopCondition(arg, flag) == arg <= nitems /\ flag = 0

LoopCheckReportsSkipped ==
    /\ pc = "loop"
    /\ LET entered == LoopCondition(imgarg, interrupt_received)
       IN  /\ pc' = IF entered THEN "load_image" ELSE "cursor_on"
           /\ IF entered
              THEN /\ file' \in LoadResults
                   /\ attempted' = Append(attempted, imgarg)
              ELSE /\ file' = "none"
                   /\ attempted' = attempted
           /\ exit_code' = IF ~entered /\ imgarg <= nitems THEN 1
                           ELSE exit_code
    /\ first_poll' = IF first_poll = -1 THEN interrupt_received ELSE first_poll
    /\ UNCHANGED <<interrupt_received, now, options, imgarg, canvas,
                   video_loader, playLocals, failed, obs, delivered, itemLog>>

\* for (int imgarg = optind; <condition>; ++imgarg) { filename = argv[imgarg];
\* On entry to the body the environment decides what the file is.

LoopCheck ==
    /\ pc = "loop"
    /\ LET entered == LoopCondition(imgarg, interrupt_received)
       IN  /\ pc' = IF entered THEN "load_image" ELSE "cursor_on"
           /\ IF entered
              THEN /\ file' \in LoadResults
                   /\ attempted' = Append(attempted, imgarg)
              ELSE /\ file' = "none"
                   /\ attempted' = attempted
    /\ first_poll' = IF first_poll = -1 THEN interrupt_received ELSE first_poll
    /\ UNCHANGED <<interrupt_received, now, options, imgarg, exit_code, canvas,
                   video_loader, playLocals, failed, obs, delivered, itemLog>>

\* ImageLoader::LoadAndScale succeeds on images and animations.
ImageLoads(f) == f \in {"image", "animation"}

\* image_loader.is_animation()
is_animation(f) == f = "animation"

\* A call LoadAndScale(filename, width, height, ...) of a loader.
LoadCall(l, w, h) == [loader |-> l, width |-> w, height |-> h]

ShowImageIgnoresV ==
    /\ pc = "load_image"
    /\ IF ImageLoads(file)
       THEN /\ canvas' = Append(canvas, IF do_scroll
                                        THEN Event("Scroll", loops)
                                        ELSE Event("Display", max_frames))
            /\ now' = IF is_animation(file) THEN now
                      ELSE WaitUntil(TimeAdd(now, between_images_duration), now)
            /\ imgarg' = imgarg + 1
            /\ file' = "none"
            /\ tried' = <<>>
            /\ pc' = "loop"
       ELSE /\ pc' = "load_video"
            /\ tried' = Append(tried, LoadCall("image", width, height))
            /\ UNCHANGED <<canvas, imgarg, file, now>>
    /\ UNCHANGED <<interrupt_received, options, exit_code, video_loader,
                   playLocals, attempted, failed, first_poll, delivered,
                   status, stderr, played, obs>>

\* if (do_image_loading) { ImageLoader image_loader;
\*   if (image_loader.LoadAndScale(...)) { Display or Scroll;
\*     if (!image_loader.is_animation())
\*         (Time::Now() + between_images_duration).WaitUntil();
\*     continue; } }
ShowImage ==
    /\ pc = "load_image"
    /\ IF do_image_loading /\ ImageLoads(file)
       THEN /\ canvas' = Append(canvas, IF do_scroll
                                        THEN Event("Scroll", loops)
                                        ELSE Event("Display", max_frames))
            /\ now' = IF is_animation(file) THEN now
                      ELSE WaitUntil(TimeAdd(now, between_images_duration), now)
            /\ imgarg' = imgarg + 1
            /\ file' = "none"
            /\ tried' = <<>>
            /\ pc' = "loop"
       ELSE /\ pc' = "load_video"
            /\ tried' = IF do_image_loading
                        THEN Append(tried, LoadCall("image", width, height))
                        ELSE tried
            /\ UNCHANGED <<canvas, imgarg, file, now>>
    /\ UNCHANGED <<interrupt_received, options, exit_code, video_loader,
                   playLocals, attempted, failed, first_poll, delivered,
                   status, stderr, played, obs>>

\* VideoLoader::LoadAndScale up to avcodec_open2: the container opens, it
\* has a video stream with a decoder and the decoder opens.
VideoOpens(f) == f \in {"video", "animation", "no_sws_context"}

\* VideoLoader::LoadAndScale: true only when in addition the scaling
\* context and the output frame can be built.
VideoLoads(f) == f \in {"video", "animation"}

\* if (opts.crop_border != 0 || opts.auto_trim_image) { fprintf(stderr,
\*   "... handled by video subsystem. ... no -T trimming feature ...") }
TrimWarning(o) ==
    IF o.crop_border # 0 \/ o.auto_trim_image THEN {"no_trimming"} ELSE {}

VideoLoadAndScaleRefusesTrim(f, o) ==
    [ok |-> VideoLoads(f) /\ TrimWarning(o) = {},
     stderr |-> IF VideoOpens(f) THEN TrimWarning(o) ELSE {}]

\* video_loader.LoadAndScale(filename, width, height, display_opts): its
\* result and what it prints about the trim options.
VideoLoadAndScale(f, o) ==
    [ok |-> VideoLoads(f),
     stderr |-> IF VideoOpens(f) THEN TrimWarning(o) ELSE {}]

\* timg::VideoLoader video_loader; if (video_loader.LoadAndScale(...))
LoadVideo ==
    /\ pc = "load_video"
    /\ tried' = Append(tried, LoadCall("video", width, height))
    /\ LET r == VideoLoadAndScale(file, display_opts)
       IN  /\ stderr' = stderr \cup r.stderr
           /\ IF r.ok
              THEN /\ video_loader' \in Loaders(display_opts, width,
                                                  frame_rates)
                   /\ pc' = "play"
                   /\ failed' = failed
              ELSE /\ video_loader' = NoLoader
                   /\ pc' = "couldnt_load"
                   /\ failed' = failed \cup {<<imgarg, file>>}
    /\ UNCHANGED <<interrupt_received, now, options, imgarg, exit_code, canvas,
                   file, playLocals, attempted, first_poll, obs, delivered,
                   status, played>>

CouldntLoadAborts ==
    /\ pc = "couldnt_load"
    /\ exit_code' = 1
    /\ file' = "none"
    /\ pc' = "cursor_on"
    /\ stderr' = {}
    /\ tried' = <<>>
    /\ UNCHANGED <<interrupt_received, now, options, canvas, imgarg,
                   video_loader, playLocals, attempted, failed, first_poll,
                   delivered, status, played, obs>>

\* fprintf(stderr, "%s: couldn't load\n", filename); exit_code = 1;
\* and the next iteration (++imgarg).
CouldntLoad ==
    /\ pc = "couldnt_load"
    /\ exit_code' = 1
    /\ imgarg' = imgarg + 1
    /\ file' = "none"
    /\ pc' = "loop"
    /\ stderr' = {}
    /\ tried' = <<>>
    /\ UNCHANGED <<interrupt_received, now, options, canvas, video_loader,
                   playLocals, attempted, failed, first_poll, delivered,
                   status, played, obs>>

ShowCursorUnlessInterrupted ==
    /\ pc = "cursor_on"
    /\ canvas' = IF hide_cursor /\ interrupt_received = 0
                 THEN Append(canvas, Event("CursorOn", 0))
                 ELSE canvas
    /\ pc' = "done"
    /\ status' = exit_code
    /\ UNCHANGED <<interrupt_received, now, options, imgarg, exit_code, file,
                   video_loader, playLocals, attempted, failed, first_poll,
                   delivered, stderr, tried, played, obs>>

\* if (hide_cursor) canvas.CursorOn(); ... return exit_code;
ShowCursor ==
    /\ pc = "cursor_on"
    /\ canvas' = IF hide_cursor THEN Append(canvas, Event("CursorOn", 0))
                 ELSE canvas
    /\ pc' = "done"
    /\ status' = exit_code
    /\ UNCHANGED <<interrupt_received, now, options, imgarg, exit_code, file,
                   video_loader, playLocals, attempted, failed, first_poll,
                   delivered, stderr, tried, played, obs>>

\* ------------------------------------------------------ VideoLoader::Play
InPlay == pc \in {"check_time", "check_flag", "read", "frame", "wait", "return"}

\* bool is_first = true; const Time end_time = Time::Now() + duration;
\* timg::Time end_next_frame;   (the Time constructor reads the clock)
PlayStart ==
    /\ pc = "play"
    /\ is_first' = TRUE
    /\ end_time' = TimeAdd(now, duration)
    /\ end_next_frame' = now
    /\ packet' = "none"
    /\ obs' = [NoObs EXCEPT !.intr_at_start = interrupt_received,
                            !.start = now, !.seed = now]
    /\ played' = Append(played, imgarg)
    /\ pc' = "check_time"
    /\ UNCHANGED <<interrupt_received, now, options, imgarg, exit_code, canvas,
                   file, video_loader, attempted, failed, first_poll,
                   delivered, status, stderr, tried>>

PlayCheckTimeRebased ==
    /\ pc = "check_time"
    /\ obs' = [obs EXCEPT !.polled_at = now]
    /\ end_time' = TimeAdd(now, duration)
    /\ IF TimeLess(now, end_time')
       THEN pc' = "check_flag"
       ELSE pc' = "return"
    /\ UNCHANGED <<interrupt_received, now, options, imgarg, exit_code, canvas,
                   file, video_loader, end_next_frame, is_first, packet,
                   mainLog>>

\* while (Time::Now() < end_time && ...
PlayCheckTime ==
    /\ pc = "check_time"
    /\ obs' = [obs EXCEPT !.polled_at = now]
    /\ IF TimeLess(now, end_time)
       THEN pc' = "check_flag"
       ELSE pc' = "return"
    /\ UNCHANGED <<interrupt_received, now, options, imgarg, exit_code, canvas,
                   file, video_loader, playLocals, mainLog>>

PlayCheckFlagNoPoll ==
    /\ pc = "check_flag"
    /\ pc' = "read"
    /\ UNCHANGED <<interrupt_received, now, options, imgarg, exit_code, canvas,
                   file, video_loader, playLocals, mainLog, obs>>

PlayCheckFlagFrameBudget ==
    /\ pc = "check_flag"
    /\ IF interrupt_received = 0 /\ ~(max_frames >= 0 /\ obs.sends >= max_frames)
       THEN pc' = "read"
       ELSE pc' = "return"
    /\ UNCHANGED <<interrupt_received, now, options, imgarg, exit_code, canvas,
                   file, video_loader, playLocals, mainLog, obs>>

\* ... && !interrupt_received && ...
PlayCheckFlag ==
    /\ pc = "check_flag"
    /\ IF interrupt_received = 0
       THEN pc' = "read"
       ELSE pc' = "return"
    /\ UNCHANGED <<interrupt_received, now, options, imgarg, exit_code, canvas,
                   file, video_loader, playLocals, mainLog, obs>>

AfterIntr(n) == IF interrupt_received = 1 THEN n + 1 ELSE n

\* ... && av_read_frame(format_context_, packet) >= 0) {
\*     if (packet->stream_index == video_stream_index_) {...}
\*     av_packet_unref(packet); }
PlayReadAnyStream ==
    /\ pc = "read"
    /\ \/ /\ packet' = "none"
          /\ pc' = "return"
          /\ obs' = [obs EXCEPT !.eof = TRUE]
          /\ delivered' = delivered
       \/ /\ delivered < budget
          /\ delivered' = delivered + 1
          /\ \E kind \in PacketKinds :
                /\ packet' = IF kind = "other" THEN "noframe" ELSE kind
                /\ pc' = "frame"
                /\ obs' = [obs EXCEPT !.reads = @ + 1,
                                      !.vreads = IF kind # "other" THEN @ + 1
                                                 ELSE @,
                                      !.decoded = IF kind = "video" THEN @ + 1
                                                  ELSE @,
                                      !.reads_after = AfterIntr(@)]
    /\ UNCHANGED <<interrupt_received, now, options, imgarg, exit_code, canvas,
                   file, video_loader, end_time, end_next_frame, is_first,
                   attempted, failed, first_poll, itemLog>>

PlayRead ==
    /\ pc = "read"
    /\ \/ /\ packet' = "none"                      \* av_read_frame < 0
          /\ pc' = "return"
          /\ obs' = [obs EXCEPT !.eof = TRUE]
          /\ delivered' = delivered
       \/ /\ delivered < budget
          /\ delivered' = delivered + 1
          /\ \E kind \in PacketKinds :
                IF kind = "other"
                THEN packet' = "none" /\ pc' = "check_time"
                ELSE packet' = kind /\ pc' = "frame"
          /\ obs' = [obs EXCEPT !.reads = @ + 1,
                                !.vreads = IF packet' # "none" THEN @ + 1
                                           ELSE @,
                                !.decoded = IF packet' = "video" THEN @ + 1
                                            ELSE @,
                                !.reads_after = AfterIntr(@)]
    /\ UNCHANGED <<interrupt_received, now, options, imgarg, exit_code, canvas,
                   file, video_loader, end_time, end_next_frame, is_first,
                   attempted, failed, first_poll, itemLog>>

FrameOutputAlwaysJumps(first, fb_height, indent) ==
    <<Event("JumpUpPixels", fb_height), SendEvent(fb_height, indent)>>

\* if (!is_first) canvas->JumpUpPixels(terminal_fb_->height());
\* canvas->Send(*terminal_fb_, center_indentation_);
FrameOutput(first, fb_height, indent) ==
    IF first THEN <<SendEvent(fb_height, indent)>>
    ELSE <<Event("JumpUpPixels", fb_height), SendEvent(fb_height, indent)>>

PlayFrameSkipsLate ==
    /\ pc = "frame"
    /\ end_next_frame' = TimeAdd(end_next_frame, video_loader.frame_duration_)
    /\ LET late == NanosLess(end_next_frame', now)
           shown == packet = "video" /\ ~late
       IN  /\ now' = IF late THEN now ELSE ClockAfter(now, video_loader.cost)
           /\ obs' = IF shown
                     THEN [obs EXCEPT !.video = @ + 1, !.sends = @ + 1,
                                      !.sends_after = AfterIntr(@)]
                     ELSE [obs EXCEPT !.video = @ + 1]
           /\ IF shown
              THEN /\ canvas' = canvas \o FrameOutput(is_first,
                                            video_loader.height,
                                            video_loader.center_indentation_)
                   /\ is_first' = FALSE
              ELSE UNCHANGED <<canvas, is_first>>
    /\ pc' = "wait"
    /\ UNCHANGED <<interrupt_received, options, imgarg, exit_code, file,
                   video_loader, end_time, packet, mainLog>>

PlayFramePipelined ==
    /\ pc = "frame"
    /\ end_next_frame' = TimeAdd(end_next_frame, video_loader.frame_duration_)
    /\ now' = ClockAfter(now, video_loader.cost)
    /\ obs' = IF packet = "video"
              THEN [obs EXCEPT !.video = @ + 1, !.sends = @ + 1,
                               !.sends_after = AfterIntr(@)]
              ELSE [obs EXCEPT !.video = @ + 1]
    /\ IF packet = "video"
       THEN /\ canvas' = canvas \o FrameOutput(is_first, video_loader.height,
                                            video_loader.center_indentation_)
            /\ is_first' = FALSE
       ELSE UNCHANGED <<canvas, is_first>>
    /\ pc' = "check_time"
    /\ packet' = "none"
    /\ UNCHANGED <<interrupt_received, options, imgarg, exit_code, file,
                   video_loader, end_time, mainLog>>

\* end_next_frame.Add(frame_duration_);
\* if (DecodePacket(...)) { sws_scale; CopyToFramebuffer;
\*     if (!is_first) canvas->JumpUpPixels(...); canvas->Send(...);
\*     is_first = false; }
\* Decoding, scaling and rendering take video_loader.cost.
PlayFrame ==
    /\ pc = "frame"
    /\ end_next_frame' = TimeAdd(end_next_frame, video_loader.frame_duration_)
    /\ now' = ClockAfter(now, video_loader.cost)
    /\ obs' = IF packet = "video"
              THEN [obs EXCEPT !.video = @ + 1, !.sends = @ + 1,
                               !.sends_after = AfterIntr(@)]
              ELSE [obs EXCEPT !.video = @ + 1]
    /\ IF packet = "video"
       THEN /\ canvas' = canvas \o FrameOutput(is_first, video_loader.height,
                                            video_loader.center_indentation_)
            /\ is_first' = FALSE
       ELSE UNCHANGED <<canvas, is_first>>
    /\ pc' = "wait"
    /\ UNCHANGED <<interrupt_received, options, imgarg, exit_code, file,
                   video_loader, end_time, packet, mainLog>>

\* end_next_frame.WaitUntil(); } av_packet_unref(packet);
PlayWait ==
    /\ pc = "wait"
    /\ now' = WaitUntil(end_next_frame, now)
    /\ obs' = [obs EXCEPT !.waits = @ + 1]
    /\ packet' = "none"
    /\ pc' = "check_time"
    /\ UNCHANGED <<interrupt_received, options, imgarg, exit_code, canvas, file,
                   video_loader, end_time, end_next_frame, is_first, mainLog>>

PlayReturnClearsExitCode ==
    /\ pc = "return"
    /\ imgarg' = imgarg + 1
    /\ exit_code' = 0
    /\ file' = "none"
    /\ video_loader' = NoLoader
    /\ end_time' = NoTime
    /\ end_next_frame' = NoTime
    /\ is_first' = TRUE
    /\ packet' = "none"
    /\ obs' = NoObs
    /\ stderr' = {}
    /\ tried' = <<>>
    /\ pc' = "loop"
    /\ UNCHANGED <<interrupt_received, now, options, canvas, attempted, failed,
                   first_poll, delivered, status, played>>

PlayReturnReplays ==
    /\ pc = "return"
    /\ IF loops > 0 /\ Len(played) < loops
       THEN /\ pc' = "play"
            /\ UNCHANGED <<imgarg, file, video_loader, stderr, tried>>
       ELSE /\ pc' = "loop"
            /\ imgarg' = imgarg + 1
            /\ file' = "none"
            /\ video_loader' = NoLoader
            /\ stderr' = {}
            /\ tried' = <<>>
    /\ end_time' = NoTime
    /\ end_next_frame' = NoTime
    /\ is_first' = TRUE
    /\ packet' = "none"
    /\ obs' = NoObs
    /\ UNCHANGED <<interrupt_received, now, options, exit_code, canvas,
                   attempted, failed, first_poll, delivered, status, played>>

\* av_frame_free(&decode_frame); av_packet_free(&packet); and in main:
\* continue;  (Play's locals and the VideoLoader go out of scope)
PlayReturn ==
    /\ pc = "return"
    /\ imgarg' = imgarg + 1
    /\ file' = "none"
    /\ video_loader' = NoLoader
    /\ end_time' = NoTime
    /\ end_next_frame' = NoTime
    /\ is_first' = TRUE
    /\ packet' = "none"
    /\ obs' = NoObs
    /\ stderr' = {}
    /\ tried' = <<>>
    /\ pc' = "loop"
    /\ UNCHANGED <<interrupt_received, now, options, exit_code, canvas,
                   attempted, failed, first_poll, delivered, status, played>>

\* ------------------------------------------------------- signal delivery
InterruptHandlerToggles == 1 - interrupt_received

\* static void InterruptHandler(int signo) { interrupt_received = 1; }
InterruptHandler == 1

\* Positions of main before signal(...) and after its return.
HandlersInstalled ==
    pc \notin {"getopt", "check_geometry", "check_filename", "check_scroll",
               "fill", "init", "usage", "version", "done"}

\* SIGINT/SIGTERM arrives once the handlers are installed.  A signal that
\* arrives while Play sleeps in clock_nanosleep ends the sleep (EINTR, the
\* return value is ignored); one that arrives just before the call does not.
Interrupt ==
    /\ HandlersInstalled
    /\ interrupt_received' = InterruptHandler
    /\ \/ UNCHANGED <<pc, obs, packet>>
       \/ /\ pc = "wait"
          /\ pc' = "check_time"
          /\ packet' = "none"
          /\ obs' = [obs EXCEPT !.waits = @ + 1]
    /\ UNCHANGED <<now, options, imgarg, exit_code, canvas, file, video_loader,
                   end_time, end_next_frame, is_first, mainLog>>

Next ==
    \/ InstallHandlers
    \/ HideCursor
    \/ LoopCheck
    \/ ShowImage
    \/ LoadVideo
    \/ CouldntLoad
    \/ ShowCursor
    \/ PlayStart
    \/ PlayCheckTime
    \/ PlayCheckFlag
    \/ PlayRead
    \/ PlayFrame
    \/ PlayWait
    \/ PlayReturn
    \/ Interrupt

Spec == Init /\ [][Next]_vars

\* main from its command line on.
NextMain ==
    \/ ParseOption
    \/ CheckGeometry
    \/ CheckFilename
    \/ CheckScroll
    \/ DeriveFill
    \/ Next

SpecMain == InitMain /\ [][NextMain]_vars

\* One Play call on its own: the state in which main calls Play for the
\* first item (default options apart from -t), with a longer stream.
InitPlay ==
    /\ interrupt_received \in {0, 1}
    /\ pc = "play"
    /\ now \in ClockSeeds
    /\ hide_cursor = TRUE
    /\ do_image_loading = TRUE
    /\ duration \in Durations
    /\ between_images_duration \in BetweenImages
    /\ nitems = 1
    /\ imgarg = 1
    /\ exit_code = 0
    /\ canvas = <<Event("CursorOff", 0)>>
    /\ file = "video"
    /\ end_time = NoTime
    /\ end_next_frame = NoTime
    /\ is_first = TRUE
    /\ packet = "none"
    /\ attempted = <<1>>
    /\ failed = {}
    /\ first_poll = 0
    /\ obs = NoObs
    /\ delivered = 0
    /\ budget = MaxPackets
    /\ argv = <<>>
    /\ optind = 1
    /\ term = ATerminal
    /\ width = TermWidth(term)
    /\ height = TermHeight(term)
    /\ do_scroll = FALSE
    /\ scroll_delay = Millis(50)
    /\ dx = 1
    /\ dy = 0
    /\ fit_width = FALSE
    /\ display_opts \in {NoDisplayOptions,
                         [NoDisplayOptions EXCEPT !.center_horizontally = TRUE]}
    /\ \E b \in PlayBudgets : max_frames = b.max_frames /\ loops = b.loops
    /\ status = -1
    /\ stderr = {}
    /\ tried = <<LoadCall("image", width, height),
                 LoadCall("video", width, height)>>
    /\ played = <<>>
    /\ frame_rates = {TenFps}
    /\ lib = NoLib
    /\ video_loader \in Loaders(display_opts, width, frame_rates)

NextPlay ==
    \/ PlayStart
    \/ PlayCheckTime
    \/ PlayCheckFlag
    \/ PlayRead
    \/ PlayFrame
    \/ PlayWait
    \/ PlayReturn
    \/ Interrupt

SpecPlay == InitPlay /\ [][NextPlay]_vars

\* Play runs to completion: every statement of the sequential loop is
\* eventually executed, each packet read and each deadline wait returning.
SpecPlayFair ==
    /\ SpecPlay
    /\ WF_vars(PlayStart)
    /\ WF_vars(PlayCheckTime)
    /\ WF_vars(PlayCheckFlag)
    /\ WF_vars(PlayRead)
    /\ WF_vars(PlayFrame)
    /\ WF_vars(PlayWait)
    /\ WF_vars(PlayReturn)

\* ------------------------------------------------ Time and Duration alone
\* The arguments the Duration factories are called with.
Amounts(factory) ==
    IF factory = "Millis" THEN {0, 400, 1000}
    ELSE IF factory = "Micros" THEN {0, 1000, 400000}
    ELSE {0, 400000000, 1500000000}

Factory(factory, amount) ==
    IF factory = "Millis" THEN Millis(amount)
    ELSE IF factory = "Micros" THEN Micros(amount)
    ELSE Nanos(amount)

\* Two Time objects, each constructed from a clock reading (Time()), and
\* nothing else of the program running.
InitTime ==
    /\ interrupt_received = 0
    /\ pc = "time"
    /\ now = NoTime
    /\ hide_cursor = TRUE
    /\ do_image_loading = TRUE
    /\ duration = InfiniteFuture
    /\ between_images_duration = Millis(0)
    /\ nitems = 0
    /\ imgarg = 1
    /\ exit_code = 0
    /\ canvas = <<>>
    /\ file = "none"
    /\ video_loader = NoLoader
    /\ end_time = NoTime
    /\ end_next_frame = NoTime
    /\ is_first = TRUE
    /\ packet = "none"
    /\ attempted = <<>>
    /\ failed = {}
    /\ first_poll = -1
    /\ obs = NoObs
    /\ delivered = 0
    /\ budget = 0
    /\ argv = <<>>
    /\ optind = 1
    /\ term = ATerminal
    /\ width = TermWidth(term)
    /\ height = TermHeight(term)
    /\ do_scroll = FALSE
    /\ scroll_delay = Millis(50)
    /\ dx = 1
    /\ dy = 0
    /\ fit_width = FALSE
    /\ display_opts = NoDisplayOptions
    /\ max_frames = -1
    /\ loops = -1
    /\ status = -1
    /\ stderr = {}
    /\ tried = <<>>
    /\ played = <<>>
    /\ frame_rates = {TenFps}
    /\ \E ta \in ClockSeeds, tb \in ClockSeeds :
          lib = [NoLib EXCEPT !.a = ta, !.b = tb]

program == <<interrupt_received, pc, now, hide_cursor, do_image_loading,
             duration, nitems, imgarg, exit_code, canvas, file, video_loader,
             end_time, end_next_frame, is_first, packet, attempted, failed,
             first_poll, obs, delivered, budget, between_images_duration,
             argv, optind, term, width, height, do_scroll, scroll_delay, dx,
             dy, fit_width, display_opts, max_frames, loops, status, stderr,
             tried, played, frame_rates>>

\* Duration d = Duration::Millis(x), Duration::Micros(x) or Duration::Nanos(x)
MakeDuration ==
    /\ pc = "time"
    /\ \E f \in {"Millis", "Micros", "Nanos"} : \E x \in Amounts(f) :
          lib' = [lib EXCEPT !.made = [factory |-> f, arg |-> x,
                                       d |-> Factory(f, x)]]
    /\ UNCHANGED program

\* a.Add(d) or b.Add(d) with the Duration made last
CallAdd ==
    /\ pc = "time"
    /\ lib.made.factory # "none"
    /\ lib.adds < MaxAdds
    /\ \/ lib' = [lib EXCEPT !.a = TimeAdd(lib.a, lib.made.d),
                             !.adds = @ + 1, !.cmp = NoLib.cmp]
       \/ lib' = [lib EXCEPT !.b = TimeAdd(lib.b, lib.made.d),
                             !.adds = @ + 1, !.cmp = NoLib.cmp]
    /\ UNCHANGED program

\* a < b and a >= b
CallLess ==
    /\ pc = "time"
    /\ ~lib.cmp.done
    /\ lib' = [lib EXCEPT !.cmp = [done |-> TRUE,
                                   less |-> TimeLess(lib.a, lib.b),
                                   ge |-> TimeGE(lib.a, lib.b)]]
    /\ UNCHANGED program

NextTime == MakeDuration \/ CallAdd \/ CallLess
SpecTime == InitTime /\ [][NextTime]_vars

\* ======================================================== properties
FrameInterval100 == Nanos(100000000)
Budget350 == Millis(350)
Tolerance == Nanos(100000000)      \* "about": within one frame interval

RECURSIVE Times(_, _)
\* k * d as a normalized (sec, nsec) pair.
Times(k, d) == IF k = 0 THEN NoTime ELSE NanosSum(Times(k - 1, d), d)

Count(op) == Cardinality({i \in 1..Len(canvas) : canvas[i].op = op})
NoEvent == Event("none", 0)
\* The n-th call before the latest one on the canvas.
Last(n) == IF Len(canvas) > n THEN canvas[Len(canvas) - n] ELSE NoEvent

\* C1: a Play call that starts with the flag set reads no packet, sends no
\* frame, waits for no deadline and goes straight to its return; a main loop
\* whose first check reads the flag as set enters its body for no item.
C1_CancelledBeforeStart ==
    /\ (InPlay /\ obs.intr_at_start = 1) =>
          /\ obs.reads = 0 /\ obs.sends = 0 /\ obs.waits = 0
          /\ pc \in {"check_time", "check_flag", "return"}
    /\ first_poll = 1 => (attempted = <<>> /\ Count("Send") = 0)

C1_Witness ==
    /\ pc = "return"
    /\ obs.intr_at_start = 1
    /\ ~obs.eof
    /\ TimeLess(now, end_time)

\* C2: with a 100 ms frame interval, a 350 ms budget, no decode cost, a
\* stream of decodable video packets and no signal, the k-th frame is sent
\* at start + (k-1) * 100 ms, there is no 5th frame, and when Play returns
\* before the end of the stream it has sent exactly 4 frames and the clock
\* is at about start + 350 ms.
C2_Scenario ==
    /\ InPlay
    /\ video_loader.frame_duration_ = FrameInterval100
    /\ video_loader.cost = Nanos(0)
    /\ duration = Budget350
    /\ interrupt_received = 0
    /\ obs.sends = obs.reads
    /\ ~obs.eof

C2_FourFramesIn350ms ==
    C2_Scenario =>
       /\ obs.sends <= 4
       /\ pc = "wait" =>
             nanoseconds(now) = NanosSum(obs.start,
                                         Times(obs.sends - 1, FrameInterval100))
       /\ pc = "return" =>
             /\ obs.sends = 4
             /\ NanosLeq(now, NanosSum(NanosSum(obs.start, Budget350), Tolerance))

\* C3: the deadline after the k-th video packet is seed + k * frame
\* duration whatever the decode cost was, and (no signal having arrived)
\* every wait has blocked until its deadline, so that whenever the loop
\* condition is evaluated the clock has reached the current deadline.
C3_AccumulatedDeadline ==
    InPlay =>
       /\ nanoseconds(end_next_frame) =
             NanosSum(obs.seed, Times(obs.video, video_loader.frame_duration_))
       /\ (pc = "check_time" /\ interrupt_received = 0) =>
             NanosLeq(end_next_frame, now)

\* C4: during a Play call end_time is the clock at the start of the call
\* plus the duration, and a packet is read only when the clock value the
\* loop condition compared was before end_time.
C4_EndTimeFixed ==
    InPlay =>
       /\ nanoseconds(end_time) = NanosSum(obs.start, duration)
       /\ pc \in {"check_flag", "read"} => NanosLess(obs.polled_at, end_time)
       /\ pc \in {"frame", "wait"} => NanosLess(obs.polled_at, end_time)

C4_Witness ==
    /\ pc = "return"
    /\ interrupt_received = 0
    /\ obs.sends >= 2
    /\ ~obs.eof
    /\ ~NanosLess(obs.polled_at, end_time)

C6_FlagLatches ==
    /\ interrupt_received = 0
    /\ [][interrupt_received' # interrupt_received =>
             (Interrupt /\ interrupt_received = 0 /\ interrupt_received' = 1)]_vars

C6_Witness ==
    /\ pc = "done"
    /\ interrupt_received = 1
    /\ Len(attempted) = 1
    /\ nitems = 2

C8_ExitCodeIffFailure ==
    exit_code # 0 <=> \E f \in failed : f[1] < imgarg

C8_Witness ==
    /\ pc = "done"
    /\ exit_code = 1
    /\ nitems = 2
    /\ failed = {<<1, "unreadable">>}
    /\ Count("Send") >= 1

\* C9: CursorOff is called at most once and is then the first call on the
\* canvas, CursorOn at most once and is then the last call; at the end of
\* the run each has been called exactly once if the cursor is to be hidden
\* and never otherwise.
C9_CursorOncePerSession ==
    /\ Count("CursorOff") <= 1 /\ Count("CursorOn") <= 1
    /\ Count("CursorOff") = 1 => (canvas[1].op = "CursorOff" /\ hide_cursor)
    /\ Count("CursorOn") = 1 =>
          (Last(0).op = "CursorOn" /\ pc = "done" /\ Count("CursorOff") = 1)
    /\ pc \in {"init", "cursor_off"} => attempted = <<>>
    /\ pc = "done" =>
          /\ Count("CursorOn") = Count("CursorOff")
          /\ Count("CursorOff") = (IF hide_cursor THEN 1 ELSE 0)

C9_Witness ==
    /\ pc = "done"
    /\ hide_cursor
    /\ interrupt_received = 1
    /\ failed # {}
    /\ Count("Send") >= 1

\* C10: the first frame a Play call sends is not preceded by a cursor-up;
\* every later one is preceded by exactly one cursor-up, by the height of
\* the frame sent before it.
C10_CursorUpBetweenFrames ==
    (InPlay /\ obs.sends >= 1) =>
       /\ Last(0).op = "Send"
       /\ obs.sends = 1 => Last(1).op # "JumpUpPixels"
       /\ obs.sends >= 2 =>
             /\ Last(1).op = "JumpUpPixels"
             /\ Last(2).op = "Send"
             /\ Last(1).n = Last(2).n

C10_Witness ==
    /\ imgarg = 2
    /\ InPlay
    /\ obs.sends = 2
    /\ Last(3).op = "Display"

\* The options of the command line with letter o, and whether there is one.
OptArgs(o) == {argv[i].arg : i \in {j \in 1..Len(argv) : argv[j].opt = o}}
HasOpt(o) == OptArgs(o) # {}

\* main has passed its option checks (it is at or after line 251).
PastChecks ==
    pc \notin {"getopt", "check_geometry", "check_filename", "check_scroll",
               "fill", "usage", "version"}

TriedLoaders == [i \in 1..Len(tried) |-> tried[i].loader]

\* C11: no frame is skipped to catch up.  Every decoded video packet is sent
\* in the step that handles it, before the next packet is read (so each is
\* sent once and in stream order), also when the clock is already past the
\* frame's deadline, and a wait entered after its deadline does not block.
C11_NoFrameSkipped ==
    /\ [](InPlay =>
            obs.sends = obs.decoded
                        - (IF pc = "frame" /\ packet = "video" THEN 1 ELSE 0))
    /\ [][(pc = "frame" /\ packet = "video" /\ pc' # "frame") =>
             /\ Len(canvas') > Len(canvas)
             /\ canvas'[Len(canvas')].op = "Send"
             /\ pc' = "wait"]_vars
    /\ [][(pc = "wait" /\ pc' # "wait" /\ NanosLeq(end_next_frame, now)) =>
             now' = now]_vars

C11_Witness ==
    /\ pc = "check_time"
    /\ interrupt_received = 0
    /\ obs.sends >= 3
    /\ obs.decoded = obs.sends
    /\ NanosLess(end_next_frame, now)

\* C12: once main has derived the fill flags, with -s given and a non-zero
\* delta, scrolling along x only sets fill_height and leaves fill_width at
\* the -W setting, scrolling along y only sets fill_width and not
\* fill_height; without scrolling fill_height is unset and fill_width is
\* the -W setting.
C12_FillFlagsFromScroll ==
    LET scrolling == HasOpt("s") /\ ~(dx = 0 /\ dy = 0)
        fw == display_opts.fill_width
        fh == display_opts.fill_height
    IN  PastChecks =>
           /\ (scrolling /\ dx # 0 /\ dy = 0) => (fh /\ (fw <=> HasOpt("W")))
           /\ (scrolling /\ dx = 0 /\ dy # 0) => (fw /\ ~fh)
           /\ ~scrolling => (~fh /\ (fw <=> HasOpt("W")))

C12_Witness ==
    /\ pc = "done"
    /\ HasOpt("s")
    /\ ~HasOpt("W")
    /\ dx = 0 /\ dy = 1
    /\ display_opts.fill_width
    /\ ~display_opts.fill_height

\* C13 as claimed: with a frame budget max_frames = N >= 0, a Play call
\* sends at most N frames.
C13_FrameBudgetBoundsVideo ==
    (InPlay /\ max_frames >= 0) => obs.sends <= max_frames

\* C13 amended: a Play call ends only because its loop condition saw the
\* clock at or past end_time, saw the flag set, or av_read_frame reported
\* the end of the stream; the number of frames it has sent plays no part.
C13_VideoEndsByTimeFlagOrEof ==
    pc = "return" =>
       \/ ~TimeLess(obs.polled_at, end_time)
       \/ interrupt_received = 1
       \/ obs.eof

C13_Witness ==
    /\ pc = "return"
    /\ max_frames = 2
    /\ obs.sends = 4
    /\ interrupt_received = 0
    /\ ~obs.eof

\* C14: when the video loader has opened an item (container, video stream
\* and decoder), it has printed the no-trimming warning exactly if -T was
\* given, and whether it then loads or fails does not depend on -T; without
\* -T the warning is never printed.
C14_TrimRefusedWithWarning ==
    /\ (pc \in {"play", "couldnt_load"} \/ InPlay) =>
          /\ VideoOpens(file) => (("no_trimming" \in stderr) <=> HasOpt("T"))
          /\ (pc = "couldnt_load") <=> ~VideoLoads(file)
    /\ ~HasOpt("T") => "no_trimming" \notin stderr

C14_Witness ==
    /\ pc = "couldnt_load"
    /\ file = "no_sws_context"
    /\ OptArgs("T") = {<<2>>}
    /\ "no_trimming" \in stderr

\* C15: with both -w and -t given, the step that shows an item as an
\* animation or as a scroll leaves the clock where the playback ended: the
\* between-image wait is not applied.
C15_NoWaitAfterAnimationOrScroll ==
    [][(pc = "load_image" /\ pc' = "loop" /\ HasOpt("w") /\ HasOpt("t")
        /\ (is_animation(file) \/ do_scroll)) => now' = now]_vars

\* C16: when main is about to call Scroll, the delay it passes is 60 ms if
\* -s was given without an argument and <ms> milliseconds if -s<ms> was.
C16_ScrollDelayDefault60 ==
    (pc = "load_image" /\ do_image_loading /\ ImageLoads(file) /\ do_scroll) =>
       \A a \in OptArgs("s") :
          scroll_delay = IF a = <<>> THEN Millis(60) ELSE Millis(a[1])

\* C17: a Play call that has started eventually returns to main and is not
\* started again: Play is called at most once for an item, whatever the
\* loop count.
C17_PlayTerminates ==
    /\ (pc = "play") ~> (pc = "loop")
    /\ [](\A i, j \in 1..Len(played) : played[i] = played[j] => i = j)

C17_Witness ==
    /\ pc = "return"
    /\ loops = 2
    /\ played = <<1>>
    /\ obs.sends >= 2
    /\ interrupt_received = 0
    /\ ~obs.eof

\* C18: frames are handled one after the other.  While a packet of the
\* video stream is being handled every earlier one has been waited for; at
\* the wait the frame's Send (preceded by its cursor-up if it is not the
\* first) is the latest call on the canvas and the deadline has been
\* advanced once per packet; a packet is read only when every wait has
\* returned.
C18_StrictlySequential ==
    InPlay =>
       /\ pc = "frame" => (obs.waits = obs.video /\ obs.reads >= obs.video + 1)
       /\ pc = "wait" =>
             /\ obs.video = obs.waits + 1
             /\ nanoseconds(end_next_frame) =
                   NanosSum(obs.seed,
                            Times(obs.video, video_loader.frame_duration_))
             /\ packet = "video" =>
                   /\ Last(0).op = "Send"
                   /\ obs.sends = obs.decoded
       /\ pc \in {"check_time", "check_flag", "read"} =>
             (obs.waits = obs.video /\ obs.sends = obs.decoded)

C18_Witness ==
    /\ pc = "read"
    /\ obs.sends = 2
    /\ obs.video = 3
    /\ obs.waits = 3

\* C19: the video loader is called for an item only after the image loader
\* has been called and has failed, or with -V without the image loader
\* being called at all; "couldn't load" is reached only when every enabled
\* loader has been called and has failed; an item the image loader could
\* load is never played.
C19_ImagesFirstOneLoader ==
    LET imageCalls == IF do_image_loading THEN <<"image">> ELSE <<>>
    IN  /\ pc = "load_image" => TriedLoaders = <<>>
        /\ pc = "load_video" =>
              /\ TriedLoaders = imageCalls
              /\ do_image_loading => ~ImageLoads(file)
        /\ (pc \in {"play", "couldnt_load"} \/ InPlay) =>
              /\ TriedLoaders = imageCalls \o <<"video">>
              /\ do_image_loading => ~ImageLoads(file)
        /\ pc = "couldnt_load" => ~VideoLoads(file)

C19_Witness ==
    /\ InPlay
    /\ ~do_image_loading
    /\ file = "animation"
    /\ TriedLoaders = <<"video">>
    /\ obs.sends >= 1

C21_NoScrollWithoutMovement ==
    /\ Count("Scroll") > 0 => (HasOpt("s") /\ ~(dx = 0 /\ dy = 0))
    /\ (PastChecks /\ dx = 0 /\ dy = 0) =>
          /\ Count("Scroll") = 0
          /\ ~do_scroll
          /\ ~display_opts.fill_height
          /\ display_opts.fill_width <=> HasOpt("W")
    /\ (pc = "done" /\ dx = 0 /\ dy = 0) =>
          Count("Display") = Len(attempted) - Cardinality(failed) - Len(played)

C21_Witness ==
    /\ pc = "done"
    /\ OptArgs("s") = {<<100>>}
    /\ dx = 0 /\ dy = 0
    /\ Count("Display") = 1
    /\ Count("Scroll") = 0

\* C22: once the flag is set no further item is entered, nothing more is
\* added to the failures and the exit code does not change except for the
\* item being processed when the flag was set; main returns the exit code,
\* which is non-zero exactly if an attempted item failed to load.
C22_CancelSkipsRemainingItems ==
    /\ [][(interrupt_received = 1 /\ pc = "loop") =>
             /\ pc' = "cursor_on"
             /\ attempted' = attempted
             /\ failed' = failed
             /\ exit_code' = exit_code
             /\ canvas' = canvas]_vars
    /\ [][interrupt_received = 1 => attempted' = attempted]_vars
    /\ [](pc = "done" =>
            /\ status = exit_code
            /\ exit_code # 0 <=> failed # {}
            /\ \A f \in failed : \E i \in 1..Len(attempted) : attempted[i] = f[1]
            /\ interrupt_received = 0 => Len(attempted) = nitems)

C22_Witness ==
    /\ pc = "done"
    /\ interrupt_received = 1
    /\ nitems = 2
    /\ attempted = <<1>>
    /\ failed = {<<1, "unreadable">>}
    /\ status = 1

\* C23: for every packet of the video stream that was read, whether or not
\* its decode yields a frame, the deadline has advanced by one frame interval
\* and one deadline wait was made, and a frame was sent only for a decoded
\* one; reading a packet of another stream changes neither the deadline nor
\* the clock nor the canvas and leads straight back to the loop condition.
C23_OneAdvanceAndWaitPerVideoPacket ==
    /\ [](InPlay =>
            /\ LET advanced == obs.vreads - (IF pc = "frame" THEN 1 ELSE 0)
               IN  /\ advanced >= 0
                   /\ nanoseconds(end_next_frame) =
                         NanosSum(obs.seed,
                                  Times(advanced, video_loader.frame_duration_))
            /\ obs.waits = obs.vreads
                           - (IF pc \in {"frame", "wait"} THEN 1 ELSE 0)
            /\ Count("Send") = obs.decoded
                        - (IF pc = "frame" /\ packet = "video" THEN 1 ELSE 0)
            /\ obs.vreads <= obs.reads)
    /\ [][(pc = "read" /\ obs'.reads > obs.reads /\ obs'.vreads = obs.vreads)
             => /\ pc' = "check_time"
                /\ end_next_frame' = end_next_frame
                /\ now' = now
                /\ canvas' = canvas
                /\ obs'.waits = obs.waits]_vars
    /\ [][(pc = "frame" /\ packet = "noframe" /\ pc' # "frame")
             => /\ pc' = "wait"
                /\ canvas' = canvas
                /\ nanoseconds(end_next_frame') =
                      NanosSum(end_next_frame, video_loader.frame_duration_)]_vars

C23_Witness ==
    /\ pc = "read"
    /\ obs.reads = 4
    /\ obs.vreads = 3
    /\ obs.decoded = 1
    /\ obs.waits = 3
    /\ Count("Send") = 1

\* C24: every frame of a video item is sent with one horizontal offset, the
\* one LoadAndScale left in the loader: (screen_width - target_width)/2 when
\* center_horizontally is set and 0 when it is not; Play does not change it.
C24_FixedCenteringOffset ==
    /\ [](InPlay =>
            LET offset == IF display_opts.center_horizontally
                          THEN CDiv(width - video_loader.target_width, 2)
                          ELSE 0
            IN  /\ video_loader.center_indentation_ = offset
                /\ \A i \in 1..Len(canvas) :
                      canvas[i].op = "Send" => canvas[i].indent = offset)
    /\ [][(InPlay /\ InPlay') => video_loader' = video_loader]_vars

C24_Witness ==
    /\ pc = "check_time"
    /\ display_opts.center_horizontally
    /\ width = 80
    /\ video_loader.target_width = 37
    /\ Count("Send") = 3
    /\ \A i \in 1..Len(canvas) : canvas[i].op = "Send" => canvas[i].indent = 21

\* C26: the frame interval of every stream LoadAndScale has accepted is a
\* valid, strictly positive Duration.
C26_FrameIntervalPositive ==
    (pc = "play" \/ InPlay) =>
        /\ ValidTimespec(video_loader.frame_duration_)
        /\ NanosLess(NoTime, video_loader.frame_duration_)

\* C25: Millis(ms), Micros(us) and Nanos(ns) of a non-negative argument give
\* a pair with 0 <= tv_nsec < 10^9 that amounts to ms*10^6, us*10^3 and ns
\* nanoseconds.
C25_FactoriesRepresentAmount ==
    LET m == lib.made
        named == IF m.factory = "Millis"
                 THEN [sec |-> m.arg \div 1000,
                       nsec |-> (m.arg % 1000) * 1000000]
                 ELSE IF m.factory = "Micros"
                 THEN [sec |-> m.arg \div 1000000,
                       nsec |-> (m.arg % 1000000) * 1000]
                 ELSE [sec |-> m.arg \div 1000000000,
                       nsec |-> m.arg % 1000000000]
    IN  m.factory # "none" =>
           /\ m.d.nsec >= 0 /\ m.d.nsec < 1000000000
           /\ nanoseconds(m.d) = named

\* C27: Add of a normalized Duration to a normalized Time leaves a normalized
\* Time whose nanoseconds() is larger by exactly the Duration, so every Time
\* reached by Add calls from a clock reading is a valid timespec.
C27_AddKeepsNormalized ==
    /\ [][(lib'.adds = lib.adds + 1 /\ ValidTimespec(lib.made.d)) =>
             /\ ValidTimespec(lib.a) => ValidTimespec(lib'.a)
             /\ ValidTimespec(lib.b) => ValidTimespec(lib'.b)
             /\ \/ /\ nanoseconds(lib'.a) = NanosSum(lib.a, lib.made.d)
                   /\ lib'.b = lib.b
                \/ /\ nanoseconds(lib'.b) = NanosSum(lib.b, lib.made.d)
                   /\ lib'.a = lib.a]_vars
    /\ [](pc = "time" => ValidTimespec(lib.a) /\ ValidTimespec(lib.b))

\* C28: for Times reached by Add calls from clock readings, a < b exactly if
\* a.nanoseconds() < b.nanoseconds(), and a >= b exactly if not a < b.
C28_ComparisonAgreesWithNanoseconds ==
    lib.cmp.done =>
       /\ lib.cmp.less <=> NanosLess(lib.a, lib.b)
       /\ lib.cmp.ge <=> ~lib.cmp.less
====
